---- MODULE Spec2Model ----
(***************************************************************************)
(* A model of the screener's data pipeline:                                *)
(*   data_pipeline/metrics_ingestion_batch.py  (extraction, retries, main) *)
(*   data_pipeline/gen_cutoffs_table.py        (stand-alone aggregator)    *)
(*   app/streamlit_app.py                      (the screener's filter)     *)
(*                                                                         *)
(* Floating-point ratios are modelled in fixed point: a metric value is an *)
(* integer number of 1/Scale units, rounded down, and a cutoff (a quantile *)
(* with linear interpolation) is an integer number of 1/(100*Scale) units, *)
(* which is exact for integer percentiles.                                 *)
(***************************************************************************)
EXTENDS Integers, Sequences, FiniteSets, TLC

VARIABLES
    \* calculate_cagr applied to one series
    series, cagr_out,
    \* extract_financials applied to one provider answer
    x_fin, x_cf, x_info, x_min_years, x_out,
    \* the batch main: metrics_ingestion_batch.py
    qualified, tickers, pc, idx, attempt, ret, records,
    metrics_file, cutoffs_file,
    \* history of the current ticker's attempts, and of the run
    calls, log, resp, failed, cutoffs_by,
    \* the screener: streamlit_app.py
    sc_metrics, sc_cutoffs, sc_in, filtered,
    \* the interactive ingestion: "data pipeline/metrics_ingestion.py"
    percentiles, session_metrics, session_cutoffs,
    \* a second Metrics Table and its cutoffs, to compare two aggregations
    alt_metrics, alt_cutoffs,
    \* the validator: data_pipeline/validate_yrs.py
    listing, n_years, current_year, cache, val_qualified, val_excluded

fnVars   == <<series, cagr_out, x_fin, x_cf, x_info, x_min_years, x_out>>
mainVars == <<qualified, tickers, pc, idx, attempt, ret, records>>
fileVars == <<metrics_file, cutoffs_file, cutoffs_by>>
histVars == <<calls, log, resp, failed>>
scVars   == <<sc_metrics, sc_cutoffs, sc_in, filtered>>
ivVars   == <<percentiles, session_metrics, session_cutoffs>>
altVars  == <<alt_metrics, alt_cutoffs>>
valVars  == <<listing, n_years, current_year, cache, val_qualified, val_excluded>>
extVars  == <<ivVars, altVars, valVars>>
vars     == <<fnVars, mainVars, fileVars, histVars, scVars, extVars>>

----------------------------------------------------------------------------
\* Bounds of the model

\* fixed-point resolution of a ratio: one unit is 1/Scale
Scale == 10
\* longest series handed to calculate_cagr on its own
MaxLen == 4
\* largest statement value in the enumerated series
MaxVal == 2
\* number of period-end dates (columns) of an enumerated statement table
MaxDates == 3
\* largest min_years tried on an enumerated statement table
MaxMinYears == 2
\* number of rows of the qualified-tickers file
MaxRows == 3

----------------------------------------------------------------------------
\* Values: Python's None, pandas' NaN, and a float in fixed point

None == [t |-> "None"]
NaN  == [t |-> "NaN"]
F(n) == [t |-> "float", v |-> n]
S(x) == [t |-> "str", v |-> x]

IsFloat(c) == c.t = "float"

\* a file that was never written
Absent == <<[t |-> "absent"]>>

----------------------------------------------------------------------------
\* Arithmetic helpers

RECURSIVE Pow(_, _)
Pow(b, e) == IF e = 0 THEN 1 ELSE b * Pow(b, e - 1)

\* floor(a / b) for b # 0
FloorDiv(a, b) == IF b > 0 THEN a \div b ELSE (-a) \div (-b)

\* the largest r >= from with (r/Scale)^n <= last/first, for first, last > 0
RECURSIVE RootSearch(_, _, _, _)
RootSearch(r, last, first, n) ==
    IF Pow(r + 1, n) * first > last * Pow(Scale, n)
    THEN r
    ELSE RootSearch(r + 1, last, first, n)

\* (last / first) ** (1 / n) - 1 in units of 1/Scale, rounded down
GrowthRate(last, first, n) == RootSearch(0, last, first, n) - Scale

RECURSIVE SumSeq(_)
SumSeq(s) == IF s = <<>> THEN 0 ELSE Head(s) + SumSeq(Tail(s))

\* s with x inserted before the first larger element (s ascending)
RECURSIVE Insert(_, _)
Insert(x, s) ==
    IF s = <<>> THEN <<x>>
    ELSE IF x <= Head(s) THEN <<x>> \o s
    ELSE <<Head(s)>> \o Insert(x, Tail(s))

RECURSIVE SortAsc(_)
SortAsc(s) == IF s = <<>> THEN <<>> ELSE Insert(Head(s), SortAsc(Tail(s)))

\* the whole series, whatever k
WholeSeries(s, k) == s

\* the last k elements of s
TailK(s, k) ==
    IF k >= Len(s) THEN s ELSE SubSeq(s, Len(s) - k + 1, Len(s))

----------------------------------------------------------------------------
\* A statement row is a function from period-end dates to cells (a float or
\* NaN); a series is the row after dropna().sort_index(): the points
\* [d |-> date, v |-> value] in ascending date order.

RECURSIVE PointsFrom(_, _, _)
PointsFrom(row, d, last) ==
    IF d > last THEN <<>>
    ELSE (IF IsFloat(row[d]) THEN <<[d |-> d, v |-> row[d].v]>> ELSE <<>>)
         \o PointsFrom(row, d + 1, last)

\* fin.loc[name].dropna().sort_index()
DropNaSorted(row) ==
    IF DOMAIN row = {} THEN <<>>
    ELSE PointsFrom(row, 1, Cardinality(DOMAIN row))

\* a check of the two ends of the series only
AnyNonPositiveEnds(s) == s[1].v <= 0 \/ s[Len(s)].v <= 0

\* any(series <= 0)
AnyNonPositive(s) == \E i \in 1..Len(s) : s[i].v <= 0

\* calculate_cagr: None or a float
calculate_cagr(s) ==
    IF Len(s) < 2 \/ s[1].v = 0 \/ AnyNonPositive(s)
    THEN None
    ELSE F(GrowthRate(s[Len(s)].v, s[1].v, Len(s) - 1))

\* the dates of a series
DatesOf(s) == {s[i].d : i \in 1..Len(s)}

\* the value of series s at date d, for d in DatesOf(s)
ValueAt(s, d) == s[CHOOSE i \in 1..Len(s) : s[i].d = d].v

\* the ratios of the two series paired by position, whatever their dates
MarginRatiosByPosition(net_income, revenue) ==
    LET n    == IF Len(net_income) < Len(revenue) THEN Len(net_income) ELSE Len(revenue)
        idxs == SelectSeq([i \in 1..n |-> i], LAMBDA i : revenue[i].v # 0)
    IN  [j \in 1..Len(idxs) |->
            FloorDiv(net_income[idxs[j]].v * Scale, revenue[idxs[j]].v)]

\* (net_income / revenue).replace([inf, -inf], nan).dropna(): the division
\* aligns the two series on their dates; a date missing from either side
\* gives NaN, a zero revenue gives +-inf or NaN, and all of these are dropped
RECURSIVE MarginRatios(_, _)
MarginRatios(net_income, revenue) ==
    IF revenue = <<>> THEN <<>>
    ELSE LET p == Head(revenue)
         IN  (IF p.d \in DatesOf(net_income) /\ p.v # 0
              THEN <<FloorDiv(ValueAt(net_income, p.d) * Scale, p.v)>>
              ELSE <<>>)
             \o MarginRatios(net_income, Tail(revenue))

\* calculate_avg_margin: None or the mean of the remaining ratios
calculate_avg_margin(net_income, revenue) ==
    LET npm == MarginRatios(net_income, revenue)
    IN  IF Len(npm) = 0 THEN None ELSE F(FloorDiv(SumSeq(npm), Len(npm)))

----------------------------------------------------------------------------
\* extract_financials

SCREEN_METRICS ==
    <<"revenue_cagr", "net_income_cagr", "eps_cagr",
      "net_profit_margin_avg", "operating_cashflow_cagr">>

DISPLAY_METRICS_MAP ==
    << <<"market_cap", "marketCap">>,
       <<"pe_ratio", "trailingPE">>,
       <<"roce", "returnOnCapitalEmployed">>,
       <<"roe", "returnOnEquity">>,
       <<"debt_to_equity", "debtToEquity">>,
       <<"pledged_percentage", "pledgedShares">>,
       <<"piotroski_score", "piotroskiScore">>,
       <<"peg_ratio", "pegRatio">>,
       <<"interest_coverage", "interestCoverage">> >>

\* info.get(field, None) if info else None; info is a function on the
\* fields the provider filled in
safe_get(info, field) == IF field \in DOMAIN info THEN info[field] ELSE None

\* out[k] = v on a dict
SetKey(out, k, v) ==
    [x \in (DOMAIN out) \cup {k} |-> IF x = k THEN v ELSE out[x]]

OCF_ROW == "Total Cash From Operating Activities"

rev_row(fin) == IF "Total Revenue" \in DOMAIN fin THEN "Total Revenue" ELSE "Revenue"
ni_row(fin)  == "Net Income"
eps_row(fin) == IF "Diluted EPS" \in DOMAIN fin THEN "Diluted EPS" ELSE "Basic EPS"

\* fin.loc[rev_row] or fin.loc[ni_row] raises KeyError inside the try block
ScreeningRaises(fin) ==
    rev_row(fin) \notin DOMAIN fin \/ ni_row(fin) \notin DOMAIN fin

\* a CAGR computed whatever the length of the series
CagrUnguarded(has, s, min_years) ==
    IF has THEN calculate_cagr(TailK(s, min_years + 1)) ELSE None

\* a CAGR over the trailing min_years + 1 points of a series; has is FALSE
\* for an optional row (eps, ocf) that the statement lacks
CagrOrNone(has, s, min_years) ==
    IF has /\ Len(s) >= min_years + 1
    THEN calculate_cagr(TailK(s, min_years + 1))
    ELSE None

\* the average margin over the trailing min_years points of both series
MarginOrNone(net_income, revenue, min_years) ==
    IF Len(net_income) >= min_years /\ Len(revenue) >= min_years
    THEN calculate_avg_margin(TailK(net_income, min_years),
                              TailK(revenue, min_years))
    ELSE None

\* the try block: every screening metric is set, to a value or to None
ScreeningTry(out, fin, cf, min_years) ==
    LET revenue    == DropNaSorted(fin[rev_row(fin)])
        net_income == DropNaSorted(fin[ni_row(fin)])
        hasEps     == eps_row(fin) \in DOMAIN fin
        eps        == IF hasEps THEN DropNaSorted(fin[eps_row(fin)]) ELSE <<>>
        hasOcf     == OCF_ROW \in DOMAIN cf
        ocf        == IF hasOcf THEN DropNaSorted(cf[OCF_ROW]) ELSE <<>>
        o1 == SetKey(out, "revenue_cagr", CagrOrNone(TRUE, revenue, min_years))
        o2 == SetKey(o1, "net_income_cagr", CagrOrNone(TRUE, net_income, min_years))
        o3 == SetKey(o2, "eps_cagr", CagrOrNone(hasEps, eps, min_years))
        o4 == SetKey(o3, "net_profit_margin_avg",
                     MarginOrNone(net_income, revenue, min_years))
    IN  SetKey(o4, "operating_cashflow_cagr", CagrOrNone(hasOcf, ocf, min_years))

\* the except block: for m in SCREEN_METRICS: out[m] = None
RECURSIVE ScreeningExcept(_, _)
ScreeningExcept(out, i) ==
    IF i > Len(SCREEN_METRICS) THEN out
    ELSE ScreeningExcept(SetKey(out, SCREEN_METRICS[i], None), i + 1)

\* for metric, yf_field in DISPLAY_METRICS_MAP.items(): out[metric] = ...
RECURSIVE DisplayMetrics(_, _, _)
DisplayMetrics(out, info, i) ==
    IF i > Len(DISPLAY_METRICS_MAP) THEN out
    ELSE DisplayMetrics(
             SetKey(out, DISPLAY_METRICS_MAP[i][1],
                    safe_get(info, DISPLAY_METRICS_MAP[i][2])),
             info, i + 1)

extract_financials(ticker, fin, cf, info, min_years) ==
    LET out0 == SetKey(SetKey(<<>>, "ticker", ticker),
                       "industry", safe_get(info, "industry"))
        out1 == IF ScreeningRaises(fin)
                THEN ScreeningExcept(out0, 1)
                ELSE ScreeningTry(out0, fin, cf, min_years)
    IN  DisplayMetrics(out1, info, 1)

----------------------------------------------------------------------------
\* Inputs: what the provider can answer for one ticker

\* a result that has not been computed yet
Unset == [t |-> "unset"]

\* a table that has not been computed yet
NoTable == <<Unset>>

Dates == 1..MaxDates

\* t.info: a full record for each industry and size, a record without an
\* industry, and an empty one
Infos ==
    { [f \in {"industry", "marketCap"} |->
          IF f = "industry" THEN S("Software") ELSE F(50)],
      [f \in {"industry", "marketCap"} |->
          IF f = "industry" THEN S("Software") ELSE F(5)],
      [f \in {"industry", "marketCap"} |->
          IF f = "industry" THEN S("Retail") ELSE F(5)],
      [f \in {"marketCap"} |-> F(500)],
      <<>> }

\* a row whose first k dates are missing and whose values rise at the end
RampRow(k) ==
    [d \in Dates |-> IF d <= k THEN NaN ELSE IF d = MaxDates THEN F(2) ELSE F(1)]

\* a complete, flat row
FlatRow == [d \in Dates |-> F(1)]

RevCells == {NaN, F(0), F(1), F(2)}
NiCells  == {NaN, F(-1), F(2)}

\* statements where revenue and net income take every shape and the
\* optional rows are complete
PairTables ==
    { [fin |-> [l \in {"Total Revenue", "Net Income", "Diluted EPS"} |->
                   IF l = "Total Revenue" THEN r
                   ELSE IF l = "Net Income" THEN n ELSE RampRow(0)],
       cf  |-> [l \in {OCF_ROW} |-> RampRow(0)]] :
      r \in [Dates -> RevCells], n \in [Dates -> NiCells] }

\* statements where every row may be missing, carry either of its labels,
\* or be of any length
LabelTables ==
    { [fin |-> [l \in revL \cup niL \cup epsL |->
                   IF l = "Total Revenue" THEN RampRow(k[1])
                   ELSE IF l = "Revenue"
                        THEN (IF "Total Revenue" \in revL THEN FlatRow ELSE RampRow(k[1]))
                   ELSE IF l = "Net Income" THEN RampRow(k[2])
                   ELSE IF l = "Diluted EPS" THEN RampRow(k[3])
                   ELSE (IF "Diluted EPS" \in epsL THEN FlatRow ELSE RampRow(k[3]))],
       cf  |-> [l \in ocfL |-> RampRow(k[4])]] :
      revL \in SUBSET {"Total Revenue", "Revenue"},
      niL  \in SUBSET {"Net Income"},
      epsL \in SUBSET {"Diluted EPS", "Basic EPS"},
      ocfL \in SUBSET {OCF_ROW},
      k    \in [1..4 -> 0..MaxDates] }

----------------------------------------------------------------------------
\* The state of the parts a specification leaves idle

IdleFn ==
    /\ series = <<>> /\ cagr_out = Unset
    /\ x_fin = <<>> /\ x_cf = <<>> /\ x_info = <<>>
    /\ x_min_years = 0 /\ x_out = Unset

IdleMain ==
    /\ qualified = <<>> /\ tickers = <<>> /\ pc = "idle" /\ idx = 0
    /\ attempt = 0 /\ ret = Unset /\ records = <<>>
    /\ metrics_file = Absent /\ cutoffs_file = Absent /\ cutoffs_by = "nobody"
    /\ calls = 0 /\ log = <<>> /\ resp = Unset /\ failed = {}

IdleScreener ==
    /\ sc_metrics = Absent /\ sc_cutoffs = Absent
    /\ sc_in = Unset /\ filtered = NoTable

IdleInteractive ==
    percentiles = <<>> /\ session_metrics = Absent /\ session_cutoffs = Absent

IdleAlt == alt_metrics = Absent /\ alt_cutoffs = Absent

IdleValidator ==
    /\ listing = Unset /\ n_years = 0 /\ current_year = 0 /\ cache = <<>>
    /\ val_qualified = <<>> /\ val_excluded = <<>>

IdleExt == IdleInteractive /\ IdleAlt /\ IdleValidator

----------------------------------------------------------------------------
\* SpecCagr: calculate_cagr on every short series

\* the series with values vals at dates 1..Len(vals)
SeriesOf(vals) == [i \in 1..Len(vals) |-> [d |-> i, v |-> vals[i]]]

InitCagr ==
    /\ \E n \in 0..MaxLen : \E vals \in [1..n -> (-1)..MaxVal] :
           series = SeriesOf(vals)
    /\ cagr_out = Unset
    /\ x_fin = <<>> /\ x_cf = <<>> /\ x_info = <<>>
    /\ x_min_years = 0 /\ x_out = Unset
    /\ IdleMain /\ IdleScreener /\ IdleExt

ApplyCagr ==
    /\ cagr_out = Unset
    /\ cagr_out' = calculate_cagr(series)
    /\ UNCHANGED <<series, x_fin, x_cf, x_info, x_min_years, x_out>>
    /\ UNCHANGED <<mainVars, fileVars, histVars, scVars, extVars>>

NextCagr == ApplyCagr

SpecCagr == InitCagr /\ [][NextCagr]_vars

----------------------------------------------------------------------------
\* SpecExtract: extract_financials on every enumerated provider answer

InitExtract ==
    /\ \/ /\ \E tb \in PairTables : x_fin = tb.fin /\ x_cf = tb.cf
          /\ x_info \in {i \in Infos : "industry" \in DOMAIN i /\ i["marketCap"] = F(50)}
       \/ /\ \E tb \in LabelTables : x_fin = tb.fin /\ x_cf = tb.cf
          /\ x_info \in {i \in Infos : DOMAIN i = {} \/ ("industry" \in DOMAIN i /\ i["marketCap"] = F(50))}
    /\ x_min_years \in 1..MaxMinYears
    /\ x_out = Unset
    /\ series = <<>> /\ cagr_out = Unset
    /\ IdleMain /\ IdleScreener /\ IdleExt

ApplyExtract ==
    /\ x_out = Unset
    /\ x_out' = extract_financials(S("T1"), x_fin, x_cf, x_info, x_min_years)
    /\ UNCHANGED <<series, cagr_out, x_fin, x_cf, x_info, x_min_years>>
    /\ UNCHANGED <<mainVars, fileVars, histVars, scVars, extVars>>

NextExtract == ApplyExtract

SpecExtract == InitExtract /\ [][NextExtract]_vars

----------------------------------------------------------------------------
\* The provider's answers in a batch run (main passes min_years = 4, so the
\* statements carry up to six period-end dates)

MAX_RETRIES == 4
MainMinYears == 4

\* str(e).lower() of the exceptions the provider raises, as word sequences
ERR_RATE      == <<"429", "too", "many", "requests">>
ERR_TIMEOUT   == <<"read", "timed", "out">>
ERR_NOT_FOUND == <<"404", "not", "found">>

ProviderErrors == {ERR_RATE, ERR_TIMEOUT, ERR_NOT_FOUND}

\* the failures that go away on their own: rate limiting and timeouts
TransientErrors == {ERR_RATE, ERR_TIMEOUT}

\* phrase in err
Contains(err, phrase) ==
    \E i \in 0..(Len(err) - Len(phrase)) :
        SubSeq(err, i + 1, i + Len(phrase)) = phrase

\* "too many requests" in err or "rate limit" in err or "timed out" in err
Retryable(err) ==
    \/ Contains(err, <<"too", "many", "requests">>)
    \/ Contains(err, <<"rate", "limit">>)
    \/ Contains(err, <<"timed", "out">>)

InfoOf(industry, cap) ==
    [f \in {"industry", "marketCap"} |-> IF f = "industry" THEN S(industry) ELSE F(cap)]

FullFin(rev, ni, eps) ==
    [l \in {"Total Revenue", "Net Income", "Diluted EPS"} |->
        IF l = "Total Revenue" THEN rev ELSE IF l = "Net Income" THEN ni ELSE eps]

OcfOnly(ocf) == [l \in {OCF_ROW} |-> ocf]

Responses ==
    { \* steady growth, every row complete
      [fin  |-> FullFin(<<F(100), F(100), F(100), F(100), F(150), F(200)>>,
                        <<F(10), F(10), F(10), F(20), F(30), F(40)>>,
                        <<F(1), F(1), F(1), F(2), F(2), F(3)>>),
       cf   |-> OcfOnly(<<F(5), F(5), F(6), F(7), F(8), F(9)>>),
       info |-> InfoOf("Software", 50)],
      \* fast growth, one net income missing, a loss in the window
      [fin  |-> FullFin(<<F(400), F(100), F(150), F(200), F(250), F(300)>>,
                        <<F(20), NaN, F(-30), F(60), F(100), F(150)>>,
                        <<F(2), F(1), F(1), F(1), F(1), F(4)>>),
       cf   |-> OcfOnly(<<NaN, F(9), F(8), F(7), F(6), F(5)>>),
       info |-> InfoOf("Software", 5)],
      \* a revenue that touches zero: no revenue CAGR, a margin all the same
      [fin  |-> FullFin(<<F(100), F(100), F(0), F(100), F(100), F(100)>>,
                        <<F(50), F(50), F(50), F(50), F(50), F(50)>>,
                        <<F(1), F(1), F(1), F(1), F(1), F(1)>>),
       cf   |-> <<>>,
       info |-> InfoOf("Software", 5)],
      \* too few net income points: no margin, a revenue CAGR all the same
      [fin  |-> FullFin(<<F(100), F(100), F(100), F(100), F(100), F(130)>>,
                        <<NaN, NaN, NaN, F(10), F(10), F(13)>>,
                        <<NaN, NaN, F(1), F(1), F(1), F(1)>>),
       cf   |-> OcfOnly(<<F(5), F(5), F(5), F(5), F(5), F(5)>>),
       info |-> InfoOf("Retail", 5)],
      \* the other labels, a shrinking revenue
      [fin  |-> [l \in {"Revenue", "Net Income", "Basic EPS"} |->
                    IF l = "Revenue"
                    THEN <<F(200), F(200), F(180), F(160), F(120), F(100)>>
                    ELSE IF l = "Net Income"
                         THEN <<F(20), F(20), F(18), F(32), F(36), F(40)>>
                         ELSE <<F(2), F(2), F(2), F(2), F(2), F(2)>>],
       cf   |-> OcfOnly(<<F(5), F(5), F(5), F(5), F(5), F(5)>>),
       info |-> InfoOf("Retail", 50)],
      \* no industry in the company record
      [fin  |-> FullFin(<<F(100), F(100), F(100), F(100), F(100), F(400)>>,
                        <<F(10), F(10), F(10), F(10), F(10), F(40)>>,
                        <<F(1), F(1), F(1), F(1), F(1), F(1)>>),
       cf   |-> OcfOnly(<<F(5), F(5), F(5), F(5), F(5), F(5)>>),
       info |-> [f \in {"marketCap"} |-> F(50)]],
      \* an unknown symbol: empty statements and an empty company record
      [fin |-> <<>>, cf |-> <<>>, info |-> <<>>] }

----------------------------------------------------------------------------
\* The batch main's ticker list

TickerNames == {"T1", "T2", "T3"}

\* the first position of x in s, or Len(s) + 1
RECURSIVE FirstPos(_, _)
FirstPos(s, x) ==
    IF s = <<>> THEN 1 ELSE IF Head(s) = x THEN 1 ELSE 1 + FirstPos(Tail(s), x)

\* the YF_Ticker columns of qualified_tickers.csv: tickers and empty cells;
\* names are interchangeable, so T1 is the first to appear, then T2, then T3
QualifiedColumns ==
    { col \in UNION {[1..n -> {S(x) : x \in TickerNames} \cup {NaN}] : n \in 0..MaxRows} :
        /\ FirstPos(col, S("T1")) <= FirstPos(col, S("T2"))
        /\ FirstPos(col, S("T2")) <= FirstPos(col, S("T3")) }

\* Series.dropna()
DropNa(col) == SelectSeq(col, LAMBDA c : c # NaN /\ c # None)

\* the column as it is, repeated tickers included
KeepRepeats(col) == col

\* Series.unique(): first occurrences, in order
RECURSIVE Unique(_)
Unique(col) ==
    IF col = <<>> THEN <<>>
    ELSE LET front == Unique(SubSeq(col, 1, Len(col) - 1))
             x     == col[Len(col)]
         IN  IF \E i \in 1..Len(front) : front[i] = x THEN front
             ELSE Append(front, x)

\* one pass too many
MoreAttemptsOffByOne(a) == a <= MAX_RETRIES

\* for attempt in range(MAX_RETRIES)
MoreAttempts(a) == a < MAX_RETRIES

\* if metrics: a dict is true unless it is empty, None is false
Truthy(x) == x # None /\ DOMAIN x # {}

\* pd.DataFrame(records).to_csv(): None is written as an empty cell, which
\* reads back as NaN
CsvRow(rec) == [k \in DOMAIN rec |-> IF rec[k] = None THEN NaN ELSE rec[k]]
ToCsv(recs) == [i \in 1..Len(recs) |-> CsvRow(recs[i])]

----------------------------------------------------------------------------
\* The aggregators: per-industry quantiles of the screening metrics

\* a float in units of 1/(100 * Scale): the result of an interpolation
Q(n) == [t |-> "float", v |-> n, hundredths |-> TRUE]

\* a float's value in units of 1/(100 * Scale)
Hundredths(c) == IF "hundredths" \in DOMAIN c THEN c.v ELSE 100 * c.v

\* the industries in groupby's order (sorted keys)
IndustryOrder == <<"Retail", "Software">>

pct_list    == <<1, 5, 10, 20, 25, 50>>
PERCENTILES == <<1, 5, 10>>
METRICS     == <<"revenue_cagr", "net_profit_margin_avg">>

Range(s) == {s[i] : i \in 1..Len(s)}

\* Series.quantile(q100 / 100), linear interpolation between closest ranks;
\* NaN for an empty series
Quantile(cells, q100) ==
    IF Len(cells) = 0 THEN NaN
    ELSE LET srt == SortAsc([i \in 1..Len(cells) |-> Hundredths(cells[i])])
             pos == (Len(cells) - 1) * q100
             lo  == pos \div 100
             fr  == pos % 100
         IN  Q(IF fr = 0 THEN srt[lo + 1]
               ELSE (srt[lo + 1] * (100 - fr) + srt[lo + 2] * fr) \div 100)

\* group[metric]
Column(rows, metric) == [i \in 1..Len(rows) |-> rows[i][metric]]

\* the keys of df.groupby("industry"): rows without an industry join no group
GroupKeys(rows) ==
    SelectSeq(IndustryOrder,
              LAMBDA ind : \E i \in 1..Len(rows) : rows[i]["industry"] = S(ind))

\* every row, whatever its industry
GroupAll(rows, ind) == rows

\* the rows of one group of df.groupby("industry")
Group(rows, ind) == SelectSeq(rows, LAMBDA r : r["industry"] = S(ind))

\* the quantile level the batch main asks for: pct / 100.0
BatchLevel(pct) == pct

\* the quantile level gen_cutoffs_table asks for: 1 - p / 100.0
GenLevel(p) == 100 - p

\* one cutoff row of the batch main: each metric over its own defined values
BatchRow(ind, pct, group) ==
    [k \in {"industry", "percentile"} \cup Range(SCREEN_METRICS) |->
        IF k = "industry" THEN S(ind)
        ELSE IF k = "percentile" THEN pct
        ELSE Quantile(DropNa(Column(group, k)), BatchLevel(pct))]

\* one cutoff row of gen_cutoffs_table
GenRow(ind, p, grp) ==
    [k \in {"industry", "percentile"} \cup Range(METRICS) |->
        IF k = "industry" THEN S(ind)
        ELSE IF k = "percentile" THEN p
        ELSE Quantile(Column(grp, k), GenLevel(p))]

\* the industry of the j-th row when every industry gets n rows
KeyAt(keys, n, j) == keys[((j - 1) \div n) + 1]

\* the percentile of the j-th row
PctAt(pcts, j) == pcts[((j - 1) % Len(pcts)) + 1]

\* metrics_ingestion_batch.main: for industry, group in groupby: for pct in
\* pct_list: append a row
BatchCutoffs(recs) ==
    LET keys == GroupKeys(recs)
    IN  [j \in 1..(Len(keys) * Len(pct_list)) |->
            LET ind == KeyAt(keys, Len(pct_list), j)
            IN  BatchRow(ind, PctAt(pct_list, j), Group(recs, ind))]

\* df.dropna(subset=["industry"] + METRICS)
GenDropNa(rows) ==
    SelectSeq(rows, LAMBDA r : r["industry"] # NaN
                               /\ \A m \in Range(METRICS) : r[m] # NaN)

\* gen_cutoffs_table.main: for industry, grp in groupby: for p in
\* PERCENTILES: append a row
GenCutoffs(rows) ==
    LET df   == GenDropNa(rows)
        keys == GroupKeys(df)
    IN  [j \in 1..(Len(keys) * Len(PERCENTILES)) |->
            LET ind == KeyAt(keys, Len(PERCENTILES), j)
            IN  GenRow(ind, PctAt(PERCENTILES, j), Group(df, ind))]

----------------------------------------------------------------------------
\* Spec: one run of the batch main, and gen_cutoffs_table run by hand

Init ==
    /\ qualified \in QualifiedColumns \cup {Absent}
    /\ tickers = <<>> /\ pc = "start" /\ idx = 0
    /\ attempt = 0 /\ ret = Unset /\ records = <<>>
    /\ metrics_file = Absent /\ cutoffs_file = Absent /\ cutoffs_by = "nobody"
    /\ calls = 0 /\ log = <<>> /\ resp = Unset /\ failed = {}
    /\ IdleFn /\ IdleScreener /\ IdleExt

\* if not os.path.exists(QUALIFIED_PATH): return
MainNoInput ==
    /\ pc = "start" /\ qualified = Absent
    /\ pc' = "aborted"
    /\ UNCHANGED <<qualified, tickers, idx, attempt, ret, records>>
    /\ UNCHANGED <<fnVars, fileVars, histVars, scVars, extVars>>

\* the loop left after its first ticker
LoopDoneAfterFirst(i, ts) == i > 1 \/ i > Len(ts)

\* the loop of main is over when every ticker has been handed back
LoopDone(i, ts) == i > Len(ts)

\* tickers = qualified_df['YF_Ticker'].dropna().unique().tolist()
MainLoad ==
    /\ pc = "start" /\ qualified # Absent
    /\ tickers' = Unique(DropNa(qualified))
    /\ idx' = 1
    /\ pc' = IF LoopDone(1, tickers') THEN "save" ELSE "attempt"
    /\ UNCHANGED <<qualified, attempt, ret, records>>
    /\ UNCHANGED <<fnVars, fileVars, histVars, scVars, extVars>>

\* one pass of the retry loop in which extract_financials returns
AttemptOk ==
    /\ pc = "attempt" /\ MoreAttempts(attempt)
    /\ \E r \in Responses :
          /\ ret' = extract_financials(tickers[idx], r.fin, r.cf, r.info, MainMinYears)
          /\ resp' = r
    /\ calls' = calls + 1
    /\ log' = Append(log, "ok")
    /\ pc' = "returned"
    /\ UNCHANGED <<qualified, tickers, idx, attempt, records, failed>>
    /\ UNCHANGED <<fnVars, fileVars, scVars, extVars>>

\* one pass in which the provider raises and the message is retryable:
\* sleep, then the next pass
AttemptRetry ==
    /\ pc = "attempt" /\ MoreAttempts(attempt)
    /\ \E e \in ProviderErrors :
          /\ Retryable(e)
          /\ log' = Append(log, IF e \in TransientErrors THEN "transient" ELSE "permanent")
    /\ calls' = calls + 1
    /\ attempt' = attempt + 1
    /\ UNCHANGED <<qualified, tickers, pc, idx, ret, records, resp, failed>>
    /\ UNCHANGED <<fnVars, fileVars, scVars, extVars>>

\* one pass in which the provider raises anything else: return None
AttemptGiveUp ==
    /\ pc = "attempt" /\ MoreAttempts(attempt)
    /\ \E e \in ProviderErrors :
          /\ ~Retryable(e)
          /\ log' = Append(log, IF e \in TransientErrors THEN "transient" ELSE "permanent")
    /\ calls' = calls + 1
    /\ ret' = None
    /\ pc' = "returned"
    /\ UNCHANGED <<qualified, tickers, idx, attempt, records, resp, failed>>
    /\ UNCHANGED <<fnVars, fileVars, scVars, extVars>>

\* the loop ran out: "Failed after MAX_RETRIES attempts", return None
AttemptsExhausted ==
    /\ pc = "attempt" /\ ~MoreAttempts(attempt)
    /\ ret' = None
    /\ pc' = "returned"
    /\ UNCHANGED <<qualified, tickers, idx, attempt, records>>
    /\ UNCHANGED <<fnVars, fileVars, histVars, scVars, extVars>>

\* if metrics: records.append(metrics); then the next ticker
MainCollect ==
    /\ pc = "returned"
    /\ records' = IF Truthy(ret) THEN Append(records, ret) ELSE records
    /\ failed' = IF Truthy(ret) THEN failed ELSE failed \cup {tickers[idx]}
    /\ idx' = idx + 1
    /\ attempt' = 0 /\ calls' = 0 /\ log' = <<>> /\ resp' = Unset /\ ret' = Unset
    /\ pc' = IF LoopDone(idx + 1, tickers) THEN "save" ELSE "attempt"
    /\ UNCHANGED <<qualified, tickers>>
    /\ UNCHANGED <<fnVars, fileVars, scVars, extVars>>

\* metrics_df = pd.DataFrame(records); metrics_df.to_csv(METRICS_PATH)
MainSaveMetrics ==
    /\ pc = "save"
    /\ metrics_file' = ToCsv(records)
    /\ pc' = "cutoffs"
    /\ UNCHANGED <<qualified, tickers, idx, attempt, ret, records>>
    /\ UNCHANGED <<cutoffs_file, cutoffs_by>>
    /\ UNCHANGED <<fnVars, histVars, scVars, extVars>>

\* the percentile loop and cutoffs_df.to_csv(CUTOFFS_PATH)
MainSaveCutoffs ==
    /\ pc = "cutoffs" /\ records # <<>>
    /\ cutoffs_file' = BatchCutoffs(records)
    /\ cutoffs_by' = "batch"
    /\ pc' = "done"
    /\ UNCHANGED <<qualified, tickers, idx, attempt, ret, records, metrics_file>>
    /\ UNCHANGED <<fnVars, histVars, scVars, extVars>>

\* with no record the frame has no columns: groupby("industry") raises
\* KeyError and the run ends after the metrics file was written
MainNoRecords ==
    /\ pc = "cutoffs" /\ records = <<>>
    /\ pc' = "crashed"
    /\ UNCHANGED <<qualified, tickers, idx, attempt, ret, records>>
    /\ UNCHANGED <<fnVars, fileVars, histVars, scVars, extVars>>

\* gen_cutoffs_table.main, run whenever a metrics file with rows exists
GenMain ==
    /\ metrics_file # Absent /\ metrics_file # <<>>
    /\ cutoffs_file' = GenCutoffs(metrics_file)
    /\ cutoffs_by' = "gen"
    /\ UNCHANGED metrics_file
    /\ UNCHANGED <<fnVars, mainVars, histVars, scVars, extVars>>

Next ==
    \/ MainNoInput \/ MainLoad
    \/ AttemptOk \/ AttemptRetry \/ AttemptGiveUp \/ AttemptsExhausted
    \/ MainCollect \/ MainSaveMetrics \/ MainSaveCutoffs \/ MainNoRecords
    \/ GenMain

Spec == Init /\ [][Next]_vars

----------------------------------------------------------------------------
\* The screener (streamlit_app.py). Market capitalisations are counted in
\* units of 100 crore, so that mc_min = 100 * CRORE is 1.

MC_MIN == 1
percentile_options == <<1, 5, 10>>

\* a strict comparison
GreaterStrict(a, b) == IsFloat(a) /\ IsFloat(b) /\ Hundredths(a) > Hundredths(b)

\* pandas' a >= b on floats: False when either side is NaN or None
GreaterEq(a, b) == IsFloat(a) /\ IsFloat(b) /\ Hundredths(a) >= Hundredths(b)

\* get_cutoff: the metric of the first row for the industry and percentile,
\* or None without such a row
get_cutoff(cutoffs, ind, metric, pct) ==
    LET row == SelectSeq(cutoffs,
                         LAMBDA c : c["industry"] = ind /\ c["percentile"] = pct)
    IN  IF row # <<>> THEN row[1][metric] ELSE None

\* the row passes the selected metric filters
PassesMetrics(r, cutoffs, use_rev_cagr, rev_cagr_p, use_npm, npm_p) ==
    /\ use_rev_cagr =>
          GreaterEq(r["revenue_cagr"],
                    get_cutoff(cutoffs, r["industry"], "revenue_cagr", rev_cagr_p))
    /\ use_npm =>
          GreaterEq(r["net_profit_margin_avg"],
                    get_cutoff(cutoffs, r["industry"], "net_profit_margin_avg", npm_p))

\* the market cap filter
InCapRange(r, mc_range) ==
    /\ GreaterEq(r["market_cap"], F(mc_range[1]))
    /\ GreaterEq(F(mc_range[2]), r["market_cap"])

filter_stocks(df, cutoffs, industries, use_rev_cagr, rev_cagr_p, use_npm, npm_p, mc_range) ==
    SelectSeq(df, LAMBDA r :
        /\ r["industry"] \in industries
        /\ PassesMetrics(r, cutoffs, use_rev_cagr, rev_cagr_p, use_npm, npm_p)
        /\ InCapRange(r, mc_range))

\* all_industries = sorted(metrics['industry'].dropna().unique())
AllIndustries(metrics) ==
    {metrics[i]["industry"] : i \in 1..Len(metrics)} \ {NaN}

\* np.nanmax(metrics['market_cap']) over the rows that have one
CapValues(metrics) ==
    {metrics[i]["market_cap"].v :
        i \in {j \in 1..Len(metrics) : IsFloat(metrics[j]["market_cap"])}}

McMax(metrics) == CHOOSE m \in CapValues(metrics) : \A c \in CapValues(metrics) : c <= m

\* cur = mc_min; while cur < mc_max: steps.append(cur); cur *= 10
RECURSIVE StepsBelow(_, _)
StepsBelow(cur, mc_max) ==
    IF cur < mc_max THEN {cur} \cup StepsBelow(cur * 10, mc_max) ELSE {}

\* the options of the market cap slider
Steps(metrics) == StepsBelow(MC_MIN, McMax(metrics)) \cup {McMax(metrics)}

\* "At least one metric must be selected. Defaulting to both."
DefaultBoth(use_rev_cagr, use_npm) == ~use_rev_cagr /\ ~use_npm

TickerSeq == <<"T1", "T2", "T3", "T4">>

\* number of tickers in the tables the screener is started on
MaxTickers == 2

\* the tables of a finished pipeline: the metrics of one to MaxTickers
\* tickers, and the cutoffs as written by the batch main or, after it, by
\* gen_cutoffs_table
InitScreener ==
    /\ \E n \in 1..MaxTickers : \E rs \in [1..n -> Responses] :
          /\ records = [i \in 1..n |->
                 extract_financials(S(TickerSeq[i]), rs[i].fin, rs[i].cf,
                                    rs[i].info, MainMinYears)]
          /\ tickers = [i \in 1..n |-> S(TickerSeq[i])]
          /\ qualified = tickers
          /\ idx = n + 1
    /\ metrics_file = ToCsv(records)
    /\ cutoffs_by \in {"batch", "gen"}
    /\ cutoffs_file = IF cutoffs_by = "batch" THEN BatchCutoffs(records)
                      ELSE GenCutoffs(metrics_file)
    /\ pc = "done" /\ attempt = 0 /\ ret = Unset
    /\ calls = 0 /\ log = <<>> /\ resp = Unset /\ failed = {}
    /\ IdleFn /\ IdleScreener /\ IdleExt

\* load_data(): both files are read; an empty file fails to parse, and
\* without any market cap the slider cannot be built
ScreenerLoad ==
    /\ sc_metrics = Absent
    /\ metrics_file # Absent /\ metrics_file # <<>>
    /\ cutoffs_file # Absent /\ cutoffs_file # <<>>
    /\ CapValues(metrics_file) # {}
    /\ sc_metrics' = metrics_file
    /\ sc_cutoffs' = cutoffs_file
    /\ UNCHANGED <<sc_in, filtered>>
    /\ UNCHANGED <<fnVars, mainVars, fileVars, histVars, extVars>>

\* one run of the script with the sidebar set: at least one industry, the
\* metric checkboxes (defaulted to both when none is ticked), a percentile
\* for each selected metric, and a market cap range
ScreenerFilter ==
    /\ sc_metrics # Absent /\ filtered = NoTable
    /\ \E inds \in (SUBSET AllIndustries(sc_metrics)) \ {{}} :
       \E rev_box \in BOOLEAN, npm_box \in BOOLEAN :
       \E p1 \in Range(percentile_options), p2 \in Range(percentile_options) :
       \E lo \in Steps(sc_metrics), hi \in Steps(sc_metrics) :
          LET use_rev_cagr == rev_box \/ DefaultBoth(rev_box, npm_box)
              use_npm      == npm_box \/ DefaultBoth(rev_box, npm_box)
              rev_cagr_p   == IF use_rev_cagr THEN p1 ELSE 0
              npm_p        == IF use_npm THEN p2 ELSE 0
          IN  /\ lo <= hi
              /\ sc_in' = [industries |-> inds,
                           use_rev_cagr |-> use_rev_cagr, rev_cagr_p |-> rev_cagr_p,
                           use_npm |-> use_npm, npm_p |-> npm_p,
                           mc_range |-> <<lo, hi>>]
              /\ filtered' = filter_stocks(sc_metrics, sc_cutoffs, inds,
                                           use_rev_cagr, rev_cagr_p,
                                           use_npm, npm_p, <<lo, hi>>)
    /\ UNCHANGED <<sc_metrics, sc_cutoffs>>
    /\ UNCHANGED <<fnVars, mainVars, fileVars, histVars, extVars>>

\* a widget changes: the script starts over, the loaded tables stay cached
ScreenerRerun ==
    /\ filtered # NoTable
    /\ sc_in' = Unset /\ filtered' = NoTable
    /\ UNCHANGED <<sc_metrics, sc_cutoffs>>
    /\ UNCHANGED <<fnVars, mainVars, fileVars, histVars, extVars>>

NextScreener == ScreenerLoad \/ ScreenerFilter \/ ScreenerRerun

SpecScreener == InitScreener /\ [][NextScreener]_vars

----------------------------------------------------------------------------
\* The interactive ingestion ("data pipeline/metrics_ingestion.py"): the
\* "Run Ingestion" button. qualified is the uploaded file, records and
\* tickers are the script's lists, session_metrics and session_cutoffs are
\* st.session_state.metrics_df and st.session_state.cutoffs_df.

\* numpy's inf or -inf
Inf == [t |-> "inf"]

PERCENTILE_OPTIONS == <<1, 5, 10, 20, 25, 50>>

\* what st.multiselect can return: the default, everything removed, one
\* option, and all of them
PercentileSelections == {<<1, 5, 10>>, <<>>, <<50>>, PERCENTILE_OPTIONS}

Abs(n) == IF n < 0 THEN -n ELSE n

\* (rev.iloc[-1] / rev.iloc[0]) ** (1/n_periods) - 1 on numpy floats: a
\* division by zero gives inf (nan for 0/0) and a negative base under a
\* fractional exponent gives nan; none of them raises
SalesCagr(rev) ==
    LET first == rev[1].v
        last  == rev[Len(rev)].v
        n     == Len(rev) - 1
    IN  IF first = 0 THEN (IF last = 0 THEN NaN ELSE Inf)
        ELSE IF last = 0 THEN F(-Scale)
        ELSE IF (last > 0) = (first > 0)
             THEN F(GrowthRate(Abs(last), Abs(first), n))
        ELSE IF n = 1 THEN F(FloorDiv(last * Scale, first) - Scale)
        ELSE NaN

\* (ni.reindex(rev.index) / rev).dropna().mean(): dropna keeps inf, and the
\* mean of nothing is nan
SalesNpm(ni, rev) ==
    LET finite == MarginRatios(ni, rev)
        hasInf == \E i \in 1..Len(rev) :
                      /\ rev[i].v = 0 /\ rev[i].d \in DatesOf(ni)
                      /\ ValueAt(ni, rev[i].d) # 0
    IN  IF hasInf THEN Inf
        ELSE IF finite = <<>> THEN NaN
        ELSE F(FloorDiv(SumSeq(finite), Len(finite)))

rev_field(fin_df) ==
    IF "Total Revenue" \in DOMAIN fin_df THEN "Total Revenue" ELSE "Revenue"

\* compute_metrics: <<cagr, npm>>
compute_metrics(fin_df) ==
    IF rev_field(fin_df) \notin DOMAIN fin_df \/ "Net Income" \notin DOMAIN fin_df
    THEN <<None, None>>
    ELSE LET rev == DropNaSorted(fin_df[rev_field(fin_df)])
             ni  == DropNaSorted(fin_df["Net Income"])
         IN  IF Len(rev) < 2 THEN <<None, None>>
             ELSE <<SalesCagr(rev), SalesNpm(ni, rev)>>

\* the provider's answers: those of the batch run, a revenue that starts at
\* zero, and a revenue that changes sign
InteractiveResponses ==
    Responses \cup
    { [fin  |-> FullFin(<<F(0), F(100), F(100), F(100), F(100), F(200)>>,
                        <<F(10), F(10), F(10), F(10), F(10), F(10)>>,
                        <<F(1), F(1), F(1), F(1), F(1), F(1)>>),
       cf   |-> <<>>,
       info |-> InfoOf("Retail", 5)],
      [fin  |-> FullFin(<<F(-100), F(100), F(100), F(100), F(100), F(200)>>,
                        <<F(10), F(10), F(10), F(10), F(10), F(10)>>,
                        <<F(1), F(1), F(1), F(1), F(1), F(1)>>),
       cf   |-> <<>>,
       info |-> InfoOf("Software", 5)] }

\* Series.quantile(q100 / 100) of a column that may hold nan and inf: nan is
\* skipped; an interpolation that touches an infinity is inf or nan, written
\* here as Inf
IvQuantile(cells, q100) ==
    LET finite == SelectSeq(cells, IsFloat)
        n      == Len(SelectSeq(cells, LAMBDA c : c # NaN))
        srt    == SortAsc([i \in 1..Len(finite) |-> Hundredths(finite[i])])
        pos    == (n - 1) * q100
        lo     == pos \div 100
        fr     == pos % 100
        hi     == IF lo + 2 > n THEN n ELSE lo + 2
    IN  IF n = 0 THEN NaN
        ELSE IF hi > Len(finite) THEN Inf
        ELSE Q(IF fr = 0 THEN srt[lo + 1]
               ELSE (srt[lo + 1] * (100 - fr) + srt[hi] * fr) \div 100)

\* one pct_records entry
InteractiveRow(ind, pct, group) ==
    [k \in {"industry", "percentile", "sales_cagr_cutoff", "npm_cutoff"} |->
        IF k = "industry" THEN S(ind)
        ELSE IF k = "percentile" THEN pct
        ELSE IF k = "sales_cagr_cutoff"
             THEN IvQuantile(Column(group, "sales_cagr"), pct)
        ELSE IvQuantile(Column(group, "net_profit_margin"), pct)]

\* for industry, group in metrics_df.groupby("industry"): for pct in
\* percentiles: append a row
InteractiveCutoffs(recs, pcts) ==
    LET keys == GroupKeys(recs)
    IN  [j \in 1..(Len(keys) * Len(pcts)) |->
            LET ind == KeyAt(keys, Len(pcts), j)
            IN  InteractiveRow(ind, PctAt(pcts, j), Group(recs, ind))]

InitInteractive ==
    /\ qualified \in QualifiedColumns \cup {Absent}
    /\ percentiles \in PercentileSelections
    /\ session_metrics = Absent /\ session_cutoffs = Absent
    /\ tickers = <<>> /\ pc = "start" /\ idx = 0
    /\ attempt = 0 /\ ret = Unset /\ records = <<>>
    /\ metrics_file = Absent /\ cutoffs_file = Absent /\ cutoffs_by = "nobody"
    /\ calls = 0 /\ log = <<>> /\ resp = Unset /\ failed = {}
    /\ IdleFn /\ IdleScreener /\ IdleAlt /\ IdleValidator

\* if qualified_file is None: st.error(...)
IvNoFile ==
    /\ pc = "start" /\ qualified = Absent
    /\ pc' = "rejected"
    /\ UNCHANGED <<qualified, tickers, idx, attempt, ret, records>>
    /\ UNCHANGED <<fnVars, fileVars, histVars, scVars, extVars>>

\* tickers = df_q['YF_Ticker'].dropna().unique().tolist()
IvLoad ==
    /\ pc = "start" /\ qualified # Absent
    /\ tickers' = Unique(DropNa(qualified))
    /\ idx' = 1
    /\ pc' = IF LoopDone(1, tickers') THEN "aggregate" ELSE "fetch"
    /\ UNCHANGED <<qualified, attempt, ret, records>>
    /\ UNCHANGED <<fnVars, fileVars, histVars, scVars, extVars>>

\* one pass of the loop over tickers: the ticker is skipped without
\* statements, without an industry or without both metrics, and recorded
\* otherwise (as_of, the day of the run, is left out of the record); log
\* keeps the answer behind each record
IvTicker ==
    /\ pc = "fetch"
    /\ \E r \in InteractiveResponses :
          LET industry == safe_get(r.info, "industry")
              m        == compute_metrics(r.fin)
              skip     == \/ r.fin = <<>> \/ industry = None
                          \/ m[1] = None \/ m[2] = None
          IN  /\ records' = IF skip THEN records
                            ELSE Append(records,
                                     [ticker |-> tickers[idx],
                                      industry |-> industry,
                                      sales_cagr |-> m[1],
                                      net_profit_margin |-> m[2]])
              /\ log' = IF skip THEN log ELSE Append(log, r)
    /\ idx' = idx + 1
    /\ pc' = IF LoopDone(idx + 1, tickers) THEN "aggregate" ELSE "fetch"
    /\ UNCHANGED <<qualified, tickers, attempt, ret, calls, resp, failed>>
    /\ UNCHANGED <<fnVars, fileVars, scVars, extVars>>

\* get_financials_and_industry raises: nothing catches it, the run ends
IvFetchRaises ==
    /\ pc = "fetch"
    /\ pc' = "crashed"
    /\ UNCHANGED <<qualified, tickers, idx, attempt, ret, records>>
    /\ UNCHANGED <<fnVars, fileVars, histVars, scVars, extVars>>

\* metrics_df = pd.DataFrame(records) goes to the session state, then the
\* cutoffs; st.success("Metrics ingestion complete!")
IvAggregate ==
    /\ pc = "aggregate" /\ records # <<>>
    /\ session_metrics' = records
    /\ session_cutoffs' = InteractiveCutoffs(records, percentiles)
    /\ pc' = "complete"
    /\ UNCHANGED percentiles
    /\ UNCHANGED <<qualified, tickers, idx, attempt, ret, records>>
    /\ UNCHANGED <<fnVars, fileVars, histVars, scVars, altVars, valVars>>

\* with no record the frame has no columns: groupby("industry") raises
\* KeyError after the metrics went to the session state
IvNoRecords ==
    /\ pc = "aggregate" /\ records = <<>>
    /\ session_metrics' = <<>>
    /\ pc' = "crashed"
    /\ UNCHANGED <<percentiles, session_cutoffs>>
    /\ UNCHANGED <<qualified, tickers, idx, attempt, ret, records>>
    /\ UNCHANGED <<fnVars, fileVars, histVars, scVars, altVars, valVars>>

NextInteractive ==
    \/ IvNoFile \/ IvLoad \/ IvTicker \/ IvFetchRaises
    \/ IvAggregate \/ IvNoRecords

SpecInteractive == InitInteractive /\ [][NextInteractive]_vars

----------------------------------------------------------------------------
\* SpecIsolation: two Metrics Tables with the same tickers and industry
\* labels, each aggregated by the same script

\* the Metrics Table of the tickers that got the answers rs
TableOf(rs) ==
    ToCsv([i \in 1..Len(rs) |->
              extract_financials(S(TickerSeq[i]), rs[i].fin, rs[i].cf,
                                 rs[i].info, MainMinYears)])

InitIsolation ==
    /\ \E n \in 1..MaxTickers :
       \E rs \in [1..n -> Responses], rs2 \in [1..n -> Responses] :
          /\ \A i \in 1..n :
                safe_get(rs[i].info, "industry") = safe_get(rs2[i].info, "industry")
          /\ metrics_file = TableOf(rs)
          /\ alt_metrics = TableOf(rs2)
    /\ cutoffs_file = Absent /\ alt_cutoffs = Absent /\ cutoffs_by = "nobody"
    /\ qualified = <<>> /\ tickers = <<>> /\ pc = "idle" /\ idx = 0
    /\ attempt = 0 /\ ret = Unset /\ records = <<>>
    /\ calls = 0 /\ log = <<>> /\ resp = Unset /\ failed = {}
    /\ IdleFn /\ IdleScreener /\ IdleInteractive /\ IdleValidator

\* the percentile loop of metrics_ingestion_batch.main on both tables
IsoBatch ==
    /\ cutoffs_by = "nobody"
    /\ cutoffs_file' = BatchCutoffs(metrics_file)
    /\ alt_cutoffs' = BatchCutoffs(alt_metrics)
    /\ cutoffs_by' = "batch"
    /\ UNCHANGED <<metrics_file, alt_metrics>>
    /\ UNCHANGED <<fnVars, mainVars, histVars, scVars, ivVars, valVars>>

\* gen_cutoffs_table.main on both tables
IsoGen ==
    /\ cutoffs_by # "gen"
    /\ cutoffs_file' = GenCutoffs(metrics_file)
    /\ alt_cutoffs' = GenCutoffs(alt_metrics)
    /\ cutoffs_by' = "gen"
    /\ UNCHANGED <<metrics_file, alt_metrics>>
    /\ UNCHANGED <<fnVars, mainVars, histVars, scVars, ivVars, valVars>>

NextIsolation == IsoBatch \/ IsoGen

SpecIsolation == InitIsolation /\ [][NextIsolation]_vars

----------------------------------------------------------------------------
\* The validator (data_pipeline/validate_yrs.py; src/validate_yrs.py is the
\* same loop on uploaded files): the "Run Validation" button. tickers, idx and
\* pc are the script's list and position, qualified is the file it writes.

\* largest N (minimum years) tried
MaxN == 2

\* the equity lists: rows of <<Ticker, ISIN>>; a listing with repeated rows,
\* one with a ticker under two ISINs, one with three companies, an empty one
Listings ==
    { [nse |-> << <<"A", "I1">> >>, bse |-> <<>>],
      [nse |-> << <<"A", "I1">>, <<"A", "I1">> >>, bse |-> << <<"A", "I1">> >>],
      [nse |-> << <<"A", "I1">>, <<"A", "I2">> >>, bse |-> << <<"B", "I3">> >>],
      [nse |-> << <<"A", "I1">>, <<"B", "I2">> >>, bse |-> << <<"C", "I3">> >>],
      [nse |-> <<>>, bse |-> <<>>] }

\* the lists are not in data/
NoLists == [nse |-> <<>>, bse |-> <<>>, missing |-> TRUE]

\* datetime.now().year
CurrentYears == {2026}

\* nse_map / bse_map: drop_duplicates, then YF_Ticker = Ticker + suffix,
\* kept as <<ISIN, <<Ticker, suffix>> >>
ExchangeMap(rows, suffix) ==
    LET u == Unique(rows)
    IN  [i \in 1..Len(u) |-> <<u[i][2], <<u[i][1], suffix>> >>]

\* combined['YF_Ticker'].tolist()
CombinedTickers(l) ==
    LET combined == Unique(ExchangeMap(l.nse, "NS") \o ExchangeMap(l.bse, "BO"))
    IN  [i \in 1..Len(combined) |-> combined[i][2]]

\* the years one more than the required ones
RequiredYearsWithCurrent(cy, n) == (cy - n + 1)..cy

\* set(range(current_year - min_years, current_year))
RequiredYears(cy, n) == (cy - n)..(cy - 1)

\* what yf.Ticker(ticker).financials can do: raise, be None or empty, or
\* carry columns of some years
FetchAnswers(cy) ==
    {[kind |-> "raises", years |-> {}], [kind |-> "empty", years |-> {}]}
    \cup {[kind |-> "years", years |-> Y] : Y \in (SUBSET ((cy - MaxN)..cy)) \ {{}}}

\* get_financial_years: set() on an exception and on no data
get_financial_years(a) == IF a.kind = "years" THEN a.years ELSE {}

InitValidator ==
    /\ listing \in Listings \cup {NoLists}
    /\ n_years \in 1..MaxN
    /\ current_year \in CurrentYears
    /\ cache = <<>> /\ val_qualified = <<>> /\ val_excluded = <<>>
    /\ qualified = Absent /\ tickers = <<>> /\ pc = "start" /\ idx = 0
    /\ attempt = 0 /\ ret = Unset /\ records = <<>>
    /\ metrics_file = Absent /\ cutoffs_file = Absent /\ cutoffs_by = "nobody"
    /\ calls = 0 /\ log = <<>> /\ resp = Unset /\ failed = {}
    /\ IdleFn /\ IdleScreener /\ IdleInteractive /\ IdleAlt

\* if not (os.path.exists(nse_path) and os.path.exists(bse_path)): st.error
ValNoLists ==
    /\ pc = "start" /\ listing = NoLists
    /\ pc' = "rejected"
    /\ UNCHANGED <<qualified, tickers, idx, attempt, ret, records>>
    /\ UNCHANGED <<fnVars, fileVars, histVars, scVars, extVars>>

ValLoad ==
    /\ pc = "start" /\ listing # NoLists
    /\ tickers' = CombinedTickers(listing)
    /\ idx' = 1
    /\ pc' = IF LoopDone(1, tickers') THEN "save" ELSE "loop"
    /\ UNCHANGED <<qualified, attempt, ret, records>>
    /\ UNCHANGED <<fnVars, fileVars, histVars, scVars, extVars>>

\* if required_years.issubset(years): qualified.append(...) else
\* excluded.append(...)
ValSort(t, years) ==
    /\ IF RequiredYears(current_year, n_years) \subseteq years
       THEN /\ val_qualified' = Append(val_qualified, [YF_Ticker |-> t, Years |-> years])
            /\ UNCHANGED val_excluded
       ELSE /\ val_excluded' = Append(val_excluded, [YF_Ticker |-> t, Years |-> years])
            /\ UNCHANGED val_qualified
    /\ idx' = idx + 1
    /\ pc' = IF LoopDone(idx + 1, tickers) THEN "save" ELSE "loop"

\* one pass of the loop for a ticker seen for the first time: the provider
\* is asked and lru_cache keeps the result; log keeps what the provider did
ValTickerFetch ==
    /\ pc = "loop" /\ tickers[idx] \notin DOMAIN cache
    /\ \E a \in FetchAnswers(current_year) :
          /\ cache' = SetKey(cache, tickers[idx], get_financial_years(a))
          /\ log' = Append(log, a)
          /\ ValSort(tickers[idx], get_financial_years(a))
    /\ UNCHANGED <<listing, n_years, current_year>>
    /\ UNCHANGED <<qualified, tickers, attempt, ret, records, calls, resp, failed>>
    /\ UNCHANGED <<fnVars, fileVars, scVars, ivVars, altVars>>

\* one pass for a ticker that is in the list a second time: lru_cache answers
ValTickerCached ==
    /\ pc = "loop" /\ tickers[idx] \in DOMAIN cache
    /\ log' = Append(log, [kind |-> "cached", years |-> cache[tickers[idx]]])
    /\ ValSort(tickers[idx], cache[tickers[idx]])
    /\ UNCHANGED <<listing, n_years, current_year, cache>>
    /\ UNCHANGED <<qualified, tickers, attempt, ret, records, calls, resp, failed>>
    /\ UNCHANGED <<fnVars, fileVars, scVars, ivVars, altVars>>

\* qualified_df.to_csv(qualified_path); excluded_df.to_csv(excluded_path)
\* (the excluded file is val_excluded as it stands); st.success
ValSave ==
    /\ pc = "save"
    /\ qualified' = [i \in 1..Len(val_qualified) |-> val_qualified[i]["YF_Ticker"]]
    /\ pc' = "complete"
    /\ UNCHANGED <<tickers, idx, attempt, ret, records>>
    /\ UNCHANGED <<fnVars, fileVars, histVars, scVars, extVars>>

NextValidator ==
    \/ ValNoLists \/ ValLoad \/ ValTickerFetch \/ ValTickerCached \/ ValSave

SpecValidator == InitValidator /\ [][NextValidator]_vars

----------------------------------------------------------------------------
\* Properties

Last(s) == s[Len(s)]

\* every screening ratio of a record is undefined
AllRatiosNone(rec) == \A m \in Range(SCREEN_METRICS) : rec[m] = None

\* C1: a ticker is attempted again only after a transient provider failure,
\* and a permanent failure or a missing-data answer is not retried and ends
\* in a Metric Record whose ratios are undefined: the ticker is not lost.
C1_PermanentKeepsRecord ==
    pc = "returned" =>
        /\ \A i \in 1..(Len(log) - 1) : log[i] = "transient"
        /\ (log # <<>> /\ Last(log) = "permanent") =>
               (Truthy(ret) /\ AllRatiosNone(ret))
        /\ (log # <<>> /\ Last(log) = "ok" /\ resp.fin = <<>>) =>
               (Truthy(ret) /\ AllRatiosNone(ret))

\* C2: process_ticker_with_retries calls extract_financials at most
\* MAX_RETRIES times: the pass counter equals the number of calls made, no
\* call follows a successful one, a record is returned exactly when the last
\* call succeeded and it is that call's record, and after MAX_RETRIES
\* transient failures the loop is left with None.
C2_BoundedRetries ==
    /\ calls <= MAX_RETRIES
    /\ calls = Len(log)
    /\ \A i \in 1..(Len(log) - 1) : log[i] # "ok"
    /\ pc = "attempt" => (attempt = calls /\ attempt <= MAX_RETRIES)
    /\ pc = "returned" =>
          /\ ret = None \/ Truthy(ret)
          /\ Truthy(ret) <=> (log # <<>> /\ Last(log) = "ok")
          /\ Truthy(ret) =>
                ret = extract_financials(tickers[idx], resp.fin, resp.cf,
                                         resp.info, MainMinYears)
          /\ (\A i \in 1..Len(log) : log[i] = "transient") =>
                (ret = None /\ calls = MAX_RETRIES)

\* C2 witness: a ticker given up after MAX_RETRIES transient failures
C2_Witness ==
    /\ pc = "returned" /\ ret = None /\ calls = MAX_RETRIES
    /\ \A i \in 1..Len(log) : log[i] = "transient"

\* C3: calculate_cagr returns None for a series of fewer than 2 points or
\* with a zero or negative value at any position, and a number exactly when
\* the series has at least 2 points, all strictly positive.
C3_CagrUndefined ==
    cagr_out # Unset =>
        LET bad == Len(series) < 2 \/ \E i \in 1..Len(series) : series[i].v <= 0
        IN  /\ bad => cagr_out = None
            /\ ~bad => IsFloat(cagr_out)

\* C3 witness: a three-point series whose only non-positive value is in
\* the middle, as in [100, -5, 120]
C3_Witness ==
    /\ cagr_out = None /\ Len(series) = 3
    /\ series[1].v > 0 /\ series[2].v < 0 /\ series[3].v > series[1].v

\* the number of defined points of the first present row among labels
PointsOf(tbl, labels) ==
    LET present == SelectSeq(labels, LAMBDA l : l \in DOMAIN tbl)
    IN  IF present = <<>> THEN 0
        ELSE Cardinality({d \in DOMAIN tbl[present[1]] : IsFloat(tbl[present[1]][d])})

\* the number of points a screening ratio can draw on
InputPoints(m) ==
    LET rev == PointsOf(x_fin, <<"Total Revenue", "Revenue">>)
        ni  == PointsOf(x_fin, <<"Net Income">>)
    IN  IF m = "revenue_cagr" THEN rev
        ELSE IF m = "net_income_cagr" THEN ni
        ELSE IF m = "eps_cagr" THEN PointsOf(x_fin, <<"Diluted EPS", "Basic EPS">>)
        ELSE IF m = "operating_cashflow_cagr" THEN PointsOf(x_cf, <<OCF_ROW>>)
        ELSE IF rev < ni THEN rev ELSE ni

\* the points a ratio needs: min_years periods are min_years + 1 points
\* for a growth rate and min_years points for an average
NeededPoints(m) ==
    IF m = "net_profit_margin_avg" THEN x_min_years ELSE x_min_years + 1

\* C4: in every record of extract_financials each screening ratio has its
\* key, the ratio is a number only when its input series has the configured
\* minimum of trailing periods, and otherwise it is None, not zero.
C4_RatiosGuarded ==
    x_out # Unset =>
        \A m \in Range(SCREEN_METRICS) :
            /\ m \in DOMAIN x_out
            /\ x_out[m] = None \/ IsFloat(x_out[m])
            /\ IsFloat(x_out[m]) => InputPoints(m) >= NeededPoints(m)
            /\ InputPoints(m) < NeededPoints(m) => x_out[m] = None

\* C4 witness: a record with a revenue series too short for its growth
\* rate, set to None, beside a growth rate that was computed
C4_Witness ==
    /\ x_out # Unset
    /\ InputPoints("revenue_cagr") = x_min_years
    /\ x_out["revenue_cagr"] = None
    /\ IsFloat(x_out["eps_cagr"])
    /\ IsFloat(x_out["net_profit_margin_avg"])

\* the quantile level of a cutoff row, by the script that wrote the table
LevelOf(by, pct) == IF by = "gen" THEN 100 - pct ELSE pct

\* the percentiles a script is configured with
ConfiguredPcts(by) == IF by = "gen" THEN PERCENTILES ELSE pct_list

\* the metric columns of a cutoff row
MetricsOfRow(row) == DOMAIN row \ {"industry", "percentile"}

\* the defined values of a metric among an industry's Metric Records
DefinedValues(ind, m) ==
    SelectSeq(Column(SelectSeq(metrics_file, LAMBDA r : r["industry"] = ind), m),
              IsFloat)

\* C5: every cutoff cell is the quantile of exactly the defined values of
\* its metric among the industry's Metric Records; a record with another
\* metric undefined still contributes.
C5_QuantileOverDefined ==
    cutoffs_file # Absent =>
        \A i \in 1..Len(cutoffs_file) :
            LET row == cutoffs_file[i]
            IN  \A m \in MetricsOfRow(row) :
                    row[m] = Quantile(DefinedValues(row["industry"], m),
                                      LevelOf(cutoffs_by, row["percentile"]))

\* C6: the Cutoffs Table has exactly one row for every industry of the
\* Metrics Table and every configured percentile, and a cell without any
\* defined value is undefined.
C6_RowPerIndustryAndPercentile ==
    cutoffs_file # Absent =>
        /\ \A ind \in AllIndustries(metrics_file) :
           \A p \in Range(ConfiguredPcts(cutoffs_by)) :
               Cardinality({i \in 1..Len(cutoffs_file) :
                               /\ cutoffs_file[i]["industry"] = ind
                               /\ cutoffs_file[i]["percentile"] = p}) = 1
        /\ Len(cutoffs_file) =
               Cardinality(AllIndustries(metrics_file))
               * Len(ConfiguredPcts(cutoffs_by))
        /\ \A i \in 1..Len(cutoffs_file) :
           \A m \in MetricsOfRow(cutoffs_file[i]) :
               DefinedValues(cutoffs_file[i]["industry"], m) = <<>>
                   => cutoffs_file[i][m] = NaN

\* the rows an aggregator computes on
KeptRows(by) == IF by = "gen" THEN GenDropNa(metrics_file) ELSE metrics_file

\* C7: in the row labelled p every cell holds the p-th percentile (linear
\* interpolation) of the values the aggregator computes on; no direction
\* flip is applied.
C7_QuantileAsLabelled ==
    cutoffs_file # Absent =>
        \A i \in 1..Len(cutoffs_file) :
            LET row == cutoffs_file[i]
                grp == SelectSeq(KeptRows(cutoffs_by),
                                 LAMBDA r : r["industry"] = row["industry"])
            IN  \A m \in MetricsOfRow(row) :
                    row[m] = Quantile(SelectSeq(Column(grp, m), IsFloat),
                                      row["percentile"])

\* the metrics the sidebar selected, each with its percentile
SelectedMetrics ==
    (IF sc_in.use_rev_cagr THEN {<<"revenue_cagr", sc_in.rev_cagr_p>>} ELSE {})
    \cup (IF sc_in.use_npm THEN {<<"net_profit_margin_avg", sc_in.npm_p>>} ELSE {})

\* the cutoff rows of an industry at a percentile
CutoffRowsFor(ind, p) ==
    {i \in 1..Len(sc_cutoffs) :
        sc_cutoffs[i]["industry"] = ind /\ sc_cutoffs[i]["percentile"] = p}

\* the value is defined and at least the defined cutoff of the row of the
\* ticker's own industry
MeetsCutoff(r, m, p) ==
    /\ r[m] # NaN
    /\ \E i \in CutoffRowsFor(r["industry"], p) :
          /\ sc_cutoffs[i][m] # NaN
          /\ 100 * r[m].v >= sc_cutoffs[i][m].v

\* the row is inside the selected industries and market cap range
InScope(r) ==
    /\ r["industry"] \in sc_in.industries
    /\ r["market_cap"] # NaN
    /\ r["market_cap"].v >= sc_in.mc_range[1]
    /\ r["market_cap"].v <= sc_in.mc_range[2]

\* C8: among the tickers of the selected industries inside the market cap
\* range, a ticker is listed if and only if, for every selected metric, its
\* value is defined and at least the cutoff of its own industry's row at
\* the chosen percentile; an undefined value, a missing cutoff row or an
\* undefined cutoff never passes. Nothing outside that scope is listed.
C8_PassIffAtLeastCutoff ==
    filtered # NoTable =>
        \A i \in 1..Len(sc_metrics) :
            LET r == sc_metrics[i]
            IN  (r \in Range(filtered)) <=>
                    (InScope(r) /\ \A mp \in SelectedMetrics : MeetsCutoff(r, mp[1], mp[2]))

\* C8 witness: a filter run that lists one ticker and turns away, inside
\* the scope, one ticker with an undefined value of a selected metric
C8_Witness ==
    /\ filtered # NoTable /\ filtered # <<>>
    /\ \E i \in 1..Len(sc_metrics) :
          /\ InScope(sc_metrics[i])
          /\ sc_in.use_rev_cagr /\ sc_metrics[i]["revenue_cagr"] = NaN
          /\ sc_metrics[i] \notin Range(filtered)

\* the tickers of the Metrics Table
RowTickers == {metrics_file[i]["ticker"] : i \in 1..Len(metrics_file)}

\* every ticker of the batch has been handed back by the retry loop
AllTickersFinished ==
    /\ idx > Len(tickers)
    /\ \A t \in Range(tickers) :
          t \in failed \/ \E i \in 1..Len(records) : records[i]["ticker"] = t

\* C9: the batch main writes neither table and computes no cutoff before
\* every ticker has finished; the Metrics Table holds all collected records
\* and the cutoffs are computed from all of them.
C9_AggregatorIsBarrier ==
    /\ pc \in {"start", "attempt", "returned", "save"} =>
          (metrics_file = Absent /\ cutoffs_file = Absent)
    /\ metrics_file # Absent =>
          (AllTickersFinished /\ metrics_file = ToCsv(records))
    /\ cutoffs_by = "batch" =>
          (AllTickersFinished /\ cutoffs_file = BatchCutoffs(metrics_file))

\* C9 witness: a finished run of three tickers, one of them failed, with
\* both tables written
C9_Witness ==
    /\ pc = "done" /\ cutoffs_by = "batch"
    /\ Len(tickers) = 3 /\ failed # {} /\ Len(records) = 2

\* the distinct tickers of the input file
InputTickers == Range(qualified) \ {NaN}

\* C10: when the batch main has run to its end the Metrics Table has
\* exactly one row for each distinct input ticker that returned a record
\* and none for a ticker that failed; a failure does not stop the tickers
\* after it from being processed.
C10_OneRowPerTicker ==
    pc \in {"done", "crashed"} =>
        /\ Cardinality(RowTickers) = Len(metrics_file)
        /\ failed \subseteq InputTickers
        /\ RowTickers = InputTickers \ failed
        /\ idx = Cardinality(InputTickers) + 1

\* C10 witness: a file that names the first ticker twice; it fails for
\* good, and the ticker after it is recorded
C10_Witness ==
    /\ pc = "done"
    /\ Len(qualified) = 3 /\ qualified[1] = qualified[2]
    /\ qualified[1] \in failed
    /\ RowTickers = {qualified[3]}

\* the screener filters on at least one metric
ScreenerHasMetric ==
    filtered # NoTable => (sc_in.use_rev_cagr \/ sc_in.use_npm)

\* C11: a configuration without percentiles or without metrics is rejected
\* or defaulted before any ticker is processed: with no percentile selected
\* no ticker is fetched, a run that completes has a Cutoffs Table with
\* rows, and the screener never filters on zero metrics.
C11_ConfigRejectedOrDefaulted ==
    /\ percentiles = <<>> => pc \in {"start", "rejected"}
    /\ pc = "complete" => session_cutoffs # <<>>
    /\ ScreenerHasMetric

\* the revenue series behind the i-th record of the interactive run
RevenueBehind(i) == DropNaSorted(log[i].fin[rev_field(log[i].fin)])

\* C16: in the interactive ingestion no record carries a sales_cagr taken
\* from a revenue series of fewer than 2 points, with a zero earliest value
\* or with any non-positive value: every sales_cagr in the table is a
\* number computed from strictly positive revenues.
C16_SalesCagrGuarded ==
    pc \in {"fetch", "aggregate", "complete", "crashed"} =>
        \A i \in 1..Len(records) :
            /\ IsFloat(records[i]["sales_cagr"])
            /\ Len(RevenueBehind(i)) >= 2
            /\ \A j \in 1..Len(RevenueBehind(i)) : RevenueBehind(i)[j].v > 0

\* the industries whose records differ between the two Metrics Tables
DiffIndustries ==
    {metrics_file[i]["industry"] :
        i \in {j \in 1..Len(metrics_file) : metrics_file[j] # alt_metrics[j]}}

\* the cutoff rows of an industry
RowsOf(cut, ind) == SelectSeq(cut, LAMBDA c : c["industry"] = ind)

\* C12: when two Metrics Tables differ only in the metric values of the
\* records of one industry, the cutoff rows of every other industry are the
\* same in the two Cutoffs Tables.
C12_IndustryIsolated ==
    (cutoffs_by # "nobody" /\ alt_cutoffs # Absent
     /\ Cardinality(DiffIndustries) <= 1) =>
        \A ind \in {S(x) : x \in Range(IndustryOrder)} \ DiffIndustries :
            RowsOf(cutoffs_file, ind) = RowsOf(alt_cutoffs, ind)

\* C12 witness: the two tables differ in Retail only, the Retail cutoffs
\* differ, and Software has cutoff rows
C12_Witness ==
    /\ alt_cutoffs # Absent
    /\ DiffIndustries = {S("Retail")}
    /\ RowsOf(cutoffs_file, S("Retail")) # RowsOf(alt_cutoffs, S("Retail"))
    /\ RowsOf(cutoffs_file, S("Software")) # <<>>

\* the dates at which a statement row has a value
DefinedDates(row) == {d \in DOMAIN row : IsFloat(row[d])}

\* the dates of the trailing k values of a row
WindowDates(row, k) ==
    {d \in DefinedDates(row) : Cardinality({e \in DefinedDates(row) : e > d}) < k}

\* the revenue row of the statement under its first accepted label
RevenueRow == x_fin[IF "Total Revenue" \in DOMAIN x_fin THEN "Total Revenue" ELSE "Revenue"]

\* the dates of both trailing windows at which the ratio is finite
AlignedDates ==
    {d \in WindowDates(x_fin["Net Income"], x_min_years)
           \cap WindowDates(RevenueRow, x_min_years) : RevenueRow[d].v # 0}

\* the sum of net income / revenue over a set of dates
RECURSIVE SumOfRatios(_)
SumOfRatios(D) ==
    IF D = {} THEN 0
    ELSE LET d == CHOOSE e \in D : TRUE
         IN  FloorDiv(x_fin["Net Income"][d].v * Scale, RevenueRow[d].v)
             + SumOfRatios(D \ {d})

\* both margin inputs are there with min_years values each
MarginWindowsExist ==
    /\ "Net Income" \in DOMAIN x_fin
    /\ {"Total Revenue", "Revenue"} \cap DOMAIN x_fin # {}
    /\ Cardinality(DefinedDates(x_fin["Net Income"])) >= x_min_years
    /\ Cardinality(DefinedDates(RevenueRow)) >= x_min_years

FirstPresent(tbl, labels) ==
    LET present == SelectSeq(labels, LAMBDA l : l \in DOMAIN tbl)
    IN  IF present = <<>> THEN <<>> ELSE tbl[present[1]]

\* a growth rate has what it needs: min_years + 1 trailing values, all of
\* them positive
GrowthComputable(row) ==
    /\ Cardinality(DefinedDates(row)) >= x_min_years + 1
    /\ \A d \in WindowDates(row, x_min_years + 1) : row[d].v > 0

\* the average margin has what it needs: min_years values of both items and
\* a date of both windows with a finite ratio
MarginComputable(ni, rev) ==
    /\ Cardinality(DefinedDates(ni)) >= x_min_years
    /\ Cardinality(DefinedDates(rev)) >= x_min_years
    /\ \E d \in WindowDates(ni, x_min_years) \cap WindowDates(rev, x_min_years) :
           rev[d].v # 0

\* the items a screening ratio is computed from
ItemsComputable(m) ==
    LET rev == FirstPresent(x_fin, <<"Total Revenue", "Revenue">>)
        ni  == FirstPresent(x_fin, <<"Net Income">>)
    IN  IF m = "revenue_cagr" THEN GrowthComputable(rev)
        ELSE IF m = "net_income_cagr" THEN GrowthComputable(ni)
        ELSE IF m = "eps_cagr"
             THEN GrowthComputable(FirstPresent(x_fin, <<"Diluted EPS", "Basic EPS">>))
        ELSE IF m = "operating_cashflow_cagr"
             THEN GrowthComputable(FirstPresent(x_cf, <<OCF_ROW>>))
        ELSE MarginComputable(ni, rev)

\* C14: each line item is read under the first accepted label present and
\* is an empty series when none is present: a record is returned with all
\* its ratio keys, and a ratio is a number exactly when its own items
\* suffice, whatever is missing elsewhere in the statement.
C14_FirstLabelElseEmpty ==
    x_out # Unset =>
        \A m \in Range(SCREEN_METRICS) :
            /\ m \in DOMAIN x_out
            /\ IsFloat(x_out[m]) <=> ItemsComputable(m)

\* r is (last / first) ^ (1 / n) - 1 in units of 1/Scale, rounded down
IsGrowthRate(r, last, first, n) ==
    /\ Pow(r + Scale, n) * first <= last * Pow(Scale, n)
    /\ Pow(r + Scale + 1, n) * first > last * Pow(Scale, n)

\* the earliest and the latest date of a set of dates
Earliest(D) == CHOOSE d \in D : \A e \in D : d <= e
Latest(D)   == CHOOSE d \in D : \A e \in D : d >= e

\* the row a growth rate is computed from
GrowthRow(m) ==
    IF m = "revenue_cagr" THEN FirstPresent(x_fin, <<"Total Revenue", "Revenue">>)
    ELSE IF m = "net_income_cagr" THEN FirstPresent(x_fin, <<"Net Income">>)
    ELSE IF m = "eps_cagr" THEN FirstPresent(x_fin, <<"Diluted EPS", "Basic EPS">>)
    ELSE FirstPresent(x_cf, <<OCF_ROW>>)

GrowthMetrics ==
    {"revenue_cagr", "net_income_cagr", "eps_cagr", "operating_cashflow_cagr"}

\* the statement carries a revenue row and a net income row
RequiredRowsPresent ==
    /\ "Net Income" \in DOMAIN x_fin
    /\ {"Total Revenue", "Revenue"} \cap DOMAIN x_fin # {}

Listed(list, t) == \E i \in 1..Len(list) : list[i]["YF_Ticker"] = t

\* C17: with N = min_years, a ticker is qualified if and only if the years
\* of its financials contain every year CurrentYear-1 .. CurrentYear-N
\* (CurrentYear is not required); every ticker that was looked at is in
\* exactly one of the two lists, once per appearance in the input; a failed
\* or empty fetch excludes the ticker; at the end every input ticker has
\* been sorted.
C17_QualifiedIffYears ==
    pc \in {"loop", "save", "complete"} =>
        /\ Len(val_qualified) + Len(val_excluded) = idx - 1
        /\ Len(log) = idx - 1
        /\ \A i \in 1..(idx - 1) :
              LET t == tickers[i]
              IN  /\ Listed(val_qualified, t) # Listed(val_excluded, t)
                  /\ Listed(val_qualified, t) <=>
                        \A k \in 1..n_years : (current_year - k) \in cache[t]
                  /\ log[i].kind \in {"raises", "empty"} => Listed(val_excluded, t)
                  /\ log[i].kind = "years" => cache[t] = log[i].years
        /\ pc \in {"save", "complete"} =>
              /\ idx - 1 = Len(tickers)
              /\ \A j \in 1..Len(listing.nse) :
                    <<listing.nse[j][1], "NS">> \in Range(tickers)
              /\ \A j \in 1..Len(listing.bse) :
                    <<listing.bse[j][1], "BO">> \in Range(tickers)

\* C17 witness: a finished run with N = 2 that qualified a ticker without
\* data for the current year and excluded one whose fetch failed
C17_Witness ==
    /\ pc = "complete" /\ n_years = 2
    /\ \E i \in 1..Len(val_qualified) :
          current_year \notin val_qualified[i]["Years"]
    /\ \E i \in 1..Len(log) :
          log[i].kind = "raises" /\ Listed(val_excluded, tickers[i])

\* the defined values of a metric among the tickers of an industry in the
\* Metrics Table the screener loaded
IndustryValues(ind, m) ==
    SelectSeq(Column(SelectSeq(sc_metrics, LAMBDA x : x["industry"] = ind), m),
              IsFloat)

\* C18: whichever script wrote the Cutoffs Table, every ticker the screener
\* lists under "top p-th percentile" of a metric has a value at least the
\* (100 - p)-th quantile of the metric among its industry's defined values.
C18_TopPercentileMeaning ==
    filtered # NoTable =>
        \A i \in 1..Len(filtered) : \A mp \in SelectedMetrics :
            Hundredths(filtered[i][mp[1]]) >=
                Hundredths(Quantile(IndustryValues(filtered[i]["industry"], mp[1]),
                                    100 - mp[2]))

====
